---- MODULE Spec2Model ----
(***************************************************************************)
(* Iterative bid-based demand response for the two-sector gas network      *)
(* (gas_iterative_demand_response_2sectors.py) together with the constant  *)
(* elasticity demand module (gas_constant_elasticity_demand_system_        *)
(* 2sectors.py).                                                           *)
(*                                                                         *)
(* Fixed-point conventions: prices and marginal costs are whole dollars    *)
(* per MMBtu; quantities are in 1e-6 MMBtu and benefits / costs in 1e-6    *)
(* dollars, so the tolerance 0.000001 of add_bids is one unit.             *)
(***************************************************************************)
EXTENDS Integers, Sequences, FiniteSets, TLC

\* ------------------------------------------------------------------------
\* Bounds of the exploration
\* ------------------------------------------------------------------------
\* outer iterations explored (iteration_number ranges over 0..MaxIter-1)
MaxIter == 3
\* direct add_bids calls explored by the bid-store harness
MaxCalls == 3
\* resolution of the bid weights an outer solve may return (weights are k / WeightScale)
WeightScale == 2

\* ------------------------------------------------------------------------
\* Program constants
\* ------------------------------------------------------------------------
\* one whole MMBtu (or dollar) in fixed-point units
Micro == 1000000
\* tolerance 0.000001 of the non-convexity test, in fixed-point units
Eps == 1
\* convergence threshold 0.0001, stored as its reciprocal
GapDivisor == 10000
\* np.maximum(1.0, price) in bid()
PriceFloor == 1

\* ------------------------------------------------------------------------
\* Index sets of the network model (externally defined, fixed for a run)
\* ------------------------------------------------------------------------
GAS_ZONES == <<"z1", "z2">>
PERIODS == <<"p1", "p2">>
TIMESERIES == <<"t1", "t2", "t3">>
DEMAND_SECTORS == <<"EI", "RC">>
GAS_ZONE_COST_ADDER == <<"z1">>

TS_IN_PERIOD == [p \in {"p1", "p2"} |-> IF p = "p1" THEN <<"t1", "t2">> ELSE <<"t3">>]
ts_period == [ts \in {"t1", "t2", "t3"} |-> IF ts = "t3" THEN "p2" ELSE "p1"]
ts_scale_to_year == [ts \in {"t1", "t2", "t3"} |-> IF ts = "t2" THEN 2 ELSE 1]
bring_annual_costs_to_base_year == [p \in {"p1", "p2"} |-> 1]

gas_ref_price == [ds \in {"EI", "RC"} |-> IF ds = "EI" THEN 2 ELSE 3]
gas_demand_ref_quantity == [z \in {"z1", "z2"} |-> IF z = "z1" THEN Micro ELSE 2 * Micro]

Range(s) == {s[i] : i \in 1..Len(s)}
ZoneSet == Range(GAS_ZONES)
TsSet == Range(TIMESERIES)
SectorSet == Range(DEMAND_SECTORS)
PeriodSet == Range(PERIODS)
Coords == ZoneSet \X TsSet \X SectorSet

\* ------------------------------------------------------------------------
\* Arithmetic helpers
\* ------------------------------------------------------------------------
Abs(x) == IF x < 0 THEN -x ELSE x
Maximum(a, b) == IF a >= b THEN a ELSE b

RECURSIVE SumSeq(_)
SumSeq(s) == IF Len(s) = 0 THEN 0 ELSE Head(s) + SumSeq(Tail(s))

RECURSIVE SetToSeq(_)
SetToSeq(S) == IF S = {} THEN <<>>
               ELSE LET x == CHOOSE y \in S : TRUE IN <<x>> \o SetToSeq(S \ {x})

\* sum of f[x] over a finite set; the elements and the terms are each evaluated once
SumOver(S, f(_)) ==
    CHOOSE r \in {SumSeq(s) : s \in {<<>> \o [i \in 1..Len(q) |-> f(q[i])] :
                                        q \in {SetToSeq(S)}}} : TRUE

MaxOfSeq(s) == CHOOSE x \in Range(s) : \A y \in Range(s) : y <= x

\* a / b for b > 0, rounded to the nearest fixed-point unit
RoundDiv(a, b) == (2 * a + b) \div (2 * b)

\* the nested loops "for z in GAS_ZONES for ts in TIMESERIES for ds in DEMAND_SECTORS"
CoordSeq ==
    <<>> \o [i \in 1..(Len(GAS_ZONES) * Len(TIMESERIES) * Len(DEMAND_SECTORS)) |->
        LET k == i - 1
            nz == Len(TIMESERIES) * Len(DEMAND_SECTORS)
        IN <<GAS_ZONES[(k \div nz) + 1],
             TIMESERIES[((k % nz) \div Len(DEMAND_SECTORS)) + 1],
             DEMAND_SECTORS[(k % Len(DEMAND_SECTORS)) + 1]>>]

\* ------------------------------------------------------------------------
\* State
\* ------------------------------------------------------------------------
VARIABLES
    dr_flat_pricing,        \* m.options.dr_flat_pricing
    rc_markup,              \* m.rc_markup[z]
    gl_cost_adder,          \* m.gl_cost_adder[p]
    iteration_number,       \* m.iteration_number, set by the iteration driver
    pc,                     \* next step of the driver, or "done" / "failed"
    error,                  \* exception that ended the run, "none" otherwise
    DR_BID_LIST,            \* m.DR_BID_LIST, an ordered set
    dr_bid,                 \* m.dr_bid[b, z, ts, ds]
    dr_price,               \* m.dr_price[b, z, ts, ds]
    dr_bid_benefit,         \* m.dr_bid_benefit[b, z, ts, ds]
    DRBidWeight,            \* values of m.DRBidWeight[b, z, ts, ds] (None until solved)
    built,                  \* what every derived component was last constructed from
    dual,                   \* m.dual, keyed by constraint object <<z, ts, generation>>
    base_data,              \* m.base_data (None before calibration)
    base_data_dict,         \* m.base_data_dict
    base_load_dict,         \* demand module global
    base_price_dict,        \* demand module global
    n_calibrate,            \* calls of the demand module's calibrate
    prev_recoverable_cost,  \* m.prev_recoverable_cost
    prev_demand,            \* m.prev_demand
    converged,              \* value returned by the latest pre_iterate
    gap,                    \* prev_direct_cost, prev_cost, best_cost of the latest pre_iterate
    last_call,              \* the latest add_bids call: its argument, the state before it, its outcome
    n_accepted,             \* add_bids calls that returned
    n_solves,               \* outer solves issued
    written                 \* iterations whose write_results / write_batch_results ran

optionVars == <<dr_flat_pricing, rc_markup, gl_cost_adder>>
storeVars == <<DR_BID_LIST, dr_bid, dr_price, dr_bid_benefit>>
componentVars == <<DRBidWeight, built>>
demandVars == <<base_data, base_data_dict, base_load_dict, base_price_dict, n_calibrate>>
loopVars == <<iteration_number, pc, error, dual, prev_recoverable_cost, prev_demand,
              converged, gap, n_solves, written>>
vars == <<optionVars, storeVars, componentVars, demandVars, loopVars, last_call, n_accepted>>

\* ------------------------------------------------------------------------
\* Derived components and reconstruct()
\* ------------------------------------------------------------------------
ComponentNames == {"DRBidWeight", "DR_Convex_Bid_Weight", "DR_Flat_Bid_Weight",
                   "FlexibleDemand", "FlexibleDemandTotal", "DR_Welfare_Cost",
                   "Zone_Gas_Balance", "SystemCostPerPeriod", "SystemCost"}

\* components whose rule iterates over m.DR_BID_LIST itself
BidIndexed == {"DRBidWeight", "DR_Convex_Bid_Weight", "DR_Flat_Bid_Weight",
               "FlexibleDemand", "DR_Welfare_Cost"}

\* component whose objects the rule of c refers to
RefersTo(c) ==
    CASE c = "FlexibleDemandTotal" -> "FlexibleDemand"
      [] c = "Zone_Gas_Balance" -> "FlexibleDemandTotal"
      [] c = "SystemCostPerPeriod" -> "DR_Welfare_Cost"
      [] c = "SystemCost" -> "SystemCostPerPeriod"
      [] OTHER -> "DRBidWeight"

\* component.clear(); component._constructed = False; component.construct():
\* the rule runs against the bid list and the component objects that exist now
reconstruct(b, list, c) ==
    [b EXCEPT ![c] =
        [defined |-> TRUE,
         gen |-> @.gen + 1,
         bids |-> IF c \in BidIndexed THEN list ELSE b[RefersTo(c)].bids,
         vars |-> IF c = "DRBidWeight" THEN @.gen + 1 ELSE b[RefersTo(c)].vars]]

RECURSIVE reconstruct_all(_, _, _)
reconstruct_all(b, list, cs) ==
    IF Len(cs) = 0 THEN b
    ELSE reconstruct_all(IF b[Head(cs)].defined THEN reconstruct(b, list, Head(cs)) ELSE b,
                         list, Tail(cs))

ReconstructOrder_balance_first ==
    <<"DRBidWeight", "DR_Convex_Bid_Weight", "DR_Flat_Bid_Weight", "Zone_Gas_Balance",
      "FlexibleDemand", "FlexibleDemandTotal", "DR_Welfare_Cost",
      "SystemCostPerPeriod", "SystemCost">>

\* the order of the reconstruct calls at the end of add_bids
ReconstructOrder == <<"DRBidWeight", "DR_Convex_Bid_Weight", "DR_Flat_Bid_Weight",
                      "FlexibleDemand", "FlexibleDemandTotal", "DR_Welfare_Cost",
                      "Zone_Gas_Balance", "SystemCostPerPeriod", "SystemCost">>

\* state of the components after define_components / define_dynamic_components
InitialBuilt(flat) ==
    [c \in ComponentNames |->
        [defined |-> (c # "DR_Flat_Bid_Weight") \/ flat, gen |-> 0, bids |-> <<>>, vars |-> 0]]

\* Constraint.Skip
Skip == [skip |-> TRUE]

\* domain of m.DRBidWeight
DRBidWeight_within == "NonNegativeReals"

DR_Convex_Bid_Weight_skip_last(z, ts, ds) ==
    LET c == built["DR_Convex_Bid_Weight"] IN
    IF Len(c.bids) <= 1 THEN Skip
    ELSE [skip |-> FALSE,
          sum_of |-> {<<b, z, ts, ds>> : b \in Range(c.bids)},
          equals |-> 1,
          vars |-> c.vars]

\* rule of m.DR_Convex_Bid_Weight[z, ts, ds]: the variables (of generation vars) summed
\* to 1, or Skip
DR_Convex_Bid_Weight(z, ts, ds) ==
    LET c == built["DR_Convex_Bid_Weight"] IN
    IF Len(c.bids) = 0 THEN Skip
    ELSE [skip |-> FALSE,
          sum_of |-> {<<b, z, ts, ds>> : b \in Range(c.bids)},
          equals |-> 1,
          vars |-> c.vars]

DR_Flat_Bid_Weight_first_overall(b, z, ts, ds) ==
    IF ds = "EI" THEN Skip
    ELSE [skip |-> FALSE,
          lhs |-> <<b, z, ts, ds>>,
          rhs |-> <<b, z, Head(TIMESERIES), ds>>,
          vars |-> built["DR_Flat_Bid_Weight"].vars]

\* rule of m.DR_Flat_Bid_Weight[b, z, ts, ds]: the pair of variables set equal, or Skip
DR_Flat_Bid_Weight(b, z, ts, ds) ==
    IF ds = "EI" THEN Skip
    ELSE [skip |-> FALSE,
          lhs |-> <<b, z, ts, ds>>,
          rhs |-> <<b, z, Head(TS_IN_PERIOD[ts_period[ts]]), ds>>,
          vars |-> built["DR_Flat_Bid_Weight"].vars]

\* index set of m.DR_Flat_Bid_Weight as last constructed
DR_Flat_Bid_Weight_index ==
    IF built["DR_Flat_Bid_Weight"].defined
    THEN Range(built["DR_Flat_Bid_Weight"].bids) \X ZoneSet \X TsSet \X SectorSet
    ELSE {}

\* ------------------------------------------------------------------------
\* add_bids
\* ------------------------------------------------------------------------
BidKeys(list) == Range(list) \X ZoneSet \X TsSet \X SectorSet

next_bid_id_from_zero == IF Len(DR_BID_LIST) = 0 THEN 0 ELSE MaxOfSeq(DR_BID_LIST) + 1

next_bid_id_reused == IF Len(DR_BID_LIST) = 0 THEN 1 ELSE MaxOfSeq(DR_BID_LIST)

\* "Determine the new bid ID"
next_bid_id == IF Len(DR_BID_LIST) = 0 THEN 1 ELSE MaxOfSeq(DR_BID_LIST) + 1

\* m.DR_BID_LIST.add(b) on an ordered set
set_add(list, b) == IF b \in Range(list) THEN list ELSE Append(list, b)

\* the test inside the double loop of add_bids, for one element of the new bid
\* (z, ts, sector, prices, demand, wtp) and one prior bid
non_convex_no_tolerance(elem, prior_b) ==
    LET prior_wtp == dr_bid_benefit[<<prior_b, elem[1], elem[2], elem[3]>>]
        prior_demand == dr_bid[<<prior_b, elem[1], elem[2], elem[3]>>]
    IN prior_wtp - prior_demand * elem[4] > elem[6] - elem[5] * elem[4]

non_convex(elem, prior_b) ==
    LET prices == elem[4]
        demand == elem[5]
        wtp == elem[6]
        prior_wtp == dr_bid_benefit[<<prior_b, elem[1], elem[2], elem[3]>>]
        prior_demand == dr_bid[<<prior_b, elem[1], elem[2], elem[3]>>]
    IN prior_wtp - prior_demand * prices > wtp - demand * prices + Eps

\* a check that compares the new bid with the latest stored bid only
non_convex_pairs_latest_prior(bids) ==
    {pr \in (1..Len(bids)) \X {b \in Range(DR_BID_LIST) : \A o \in Range(DR_BID_LIST) : o <= b} :
        non_convex(bids[pr[1]], pr[2])}

non_convex_pairs(bids) ==
    {pr \in (1..Len(bids)) \X Range(DR_BID_LIST) : non_convex(bids[pr[1]], pr[2])}

assign_bids_all_ids(param, b, bids, field) ==
    LET keys_set == {<<b, bids[i][1], bids[i][2], bids[i][3]>> : i \in 1..Len(bids)}
        at(k) == CHOOSE i \in 1..Len(bids) : <<bids[i][1], bids[i][2], bids[i][3]>> = <<k[2], k[3], k[4]>>
    IN [k \in (DOMAIN param) \cup keys_set |-> bids[at(k)][field]]

\* param[b, z, ts, sector] = bids[i][field] for every element, later elements overwriting
assign_bids(param, b, bids, field) ==
    LET keys_set == {<<b, bids[i][1], bids[i][2], bids[i][3]>> : i \in 1..Len(bids)}
        last(k) == CHOOSE i \in 1..Len(bids) :
                      /\ <<b, bids[i][1], bids[i][2], bids[i][3]>> = k
                      /\ \A j \in 1..Len(bids) :
                            <<b, bids[j][1], bids[j][2], bids[j][3]>> = k => j <= i
    IN [k \in (DOMAIN param) \cup keys_set |->
            IF k \in keys_set THEN bids[last(k)][field] ELSE param[k]]

\* the model after add_bids(m, bids) when the non-convexity check passes
add_bids_accept(bids) ==
    LET b == next_bid_id
        list == set_add(DR_BID_LIST, b)
        rebuilt == reconstruct_all(built, list, ReconstructOrder)
    IN [DR_BID_LIST |-> list,
        dr_bid_benefit |-> assign_bids(dr_bid_benefit, b, bids, 6),
        dr_bid |-> assign_bids(dr_bid, b, bids, 5),
        dr_price |-> assign_bids(dr_price, b, bids, 4),
        built |-> rebuilt,
        DRBidWeight |-> [k \in BidKeys(rebuilt["DRBidWeight"].bids) |-> <<>>]]

add_bids_check_after(bids) ==
    /\ last_call' = [bids |-> bids,
                     list_before |-> DR_BID_LIST,
                     raised |-> non_convex_pairs(bids) # {}]
    /\ \E after \in {add_bids_accept(bids)} :
           /\ DR_BID_LIST' = after.DR_BID_LIST
           /\ dr_bid_benefit' = after.dr_bid_benefit
           /\ dr_bid' = after.dr_bid
           /\ dr_price' = after.dr_price
           /\ built' = after.built
           /\ DRBidWeight' = after.DRBidWeight
           /\ n_accepted' = IF non_convex_pairs(bids) # {} THEN n_accepted ELSE n_accepted + 1

\* add_bids(m, bids): raises ValueError before touching the model, or accepts
add_bids(bids) ==
    /\ last_call' = [bids |-> bids,
                     list_before |-> DR_BID_LIST,
                     raised |-> non_convex_pairs(bids) # {}]
    /\ IF non_convex_pairs(bids) # {}
       THEN UNCHANGED <<storeVars, componentVars, n_accepted>>
       ELSE \E after \in {add_bids_accept(bids)} :
               /\ DR_BID_LIST' = after.DR_BID_LIST
               /\ dr_bid_benefit' = after.dr_bid_benefit
               /\ dr_bid' = after.dr_bid
               /\ dr_price' = after.dr_price
               /\ built' = after.built
               /\ DRBidWeight' = after.DRBidWeight
               /\ n_accepted' = n_accepted + 1

\* ------------------------------------------------------------------------
\* Python values
\* ------------------------------------------------------------------------
None == <<>>
Some(v) == <<v>>
IsNone(x) == Len(x) = 0
ValueOf(x) == x[1]
EmptyDict == [k \in {} |-> 0]

\* a dictionary / a list with every entry evaluated once
Dict(f) == f @@ EmptyDict
List(s) == s \o <<>>

\* ------------------------------------------------------------------------
\* Demand module: calibrate() and bid()
\* ------------------------------------------------------------------------

\* bl * (p / bp) ** (-e) for bl = 1 MMBtu, e = elasticities[sector], p = 1..MaxPrice,
\* evaluated in floating point and rounded to fixed-point units
elastic_load_table ==
    (<<"EI", 2>> :> <<1035265, 1000000, 979931, 965936, 955219, 946551, 939283, 933033, 927554>>) @@
    (<<"EI", 3>> :> <<1056467, 1020480, 1000000, 985719, 974782, 965936, 958520, 952142, 946551>>) @@
    (<<"RC", 3>> :> <<1011047, 1004063, 1000000, 997127, 994905, 993092, 991563, 990240, 989074>>)

\* elastic_load_cs_diff + elastic_load_paid_diff for bl = 1 MMBtu, p = 1..MaxPrice
wtp_table ==
    (<<"EI", 2>> :> <<50776, 0, -49463, -98092, -146110, -193648, -240789, -287593, -334105>>) @@
    (<<"EI", 3>> :> <<102291, 50476, 0, -49625, -98627, -147138, -195244, -243007, -290471>>) @@
    (<<"RC", 3>> :> <<20090, 10019, 0, -9985, -19945, -29884, -39807, -49716, -59613>>)

\* highest price the tables cover
MaxPrice == Len(elastic_load_table[<<"EI", 2>>])

\* m.gas_ref_price[z, ts, ds] and m.gas_demand_ref_quantity[z, ts, ds]
ref_price(z, ts, ds) == gas_ref_price[ds]
ref_quantity(z, ts, ds) == gas_demand_ref_quantity[z]

\* calibrate_model: m.base_data, one tuple (z, ts, ds, [base_load], [base_price]) per coordinate
calibrate_base_data ==
    [i \in 1..Len(CoordSeq) |->
        LET c == CoordSeq[i]
        IN <<c[1], c[2], c[3], <<ref_quantity(c[1], c[2], c[3])>>, <<ref_price(c[1], c[2], c[3])>>>>]

\* calibrate_model: m.base_data_dict[z, ts, ds] = (base_load, base_price)
calibrate_base_data_dict ==
    [c \in Coords |-> <<ref_quantity(c[1], c[2], c[3]), ref_price(c[1], c[2], c[3])>>]

\* an update_demand that takes every run for the first
first_run_always == TRUE

\* an update_demand that never calibrates
first_run_never == FALSE

\* first_run of update_demand
first_run == IsNone(base_data)

\* demand_module.calibrate: base_load_dict / base_price_dict built from base_data
calibrate(data, field) ==
    [c \in {<<data[i][1], data[i][2], data[i][3]>> : i \in 1..Len(data)} |->
        LET i == CHOOSE j \in 1..Len(data) : <<data[j][1], data[j][2], data[j][3]>> = c
        IN data[i][field][1]]

\* p of bid: the price at which bid evaluates the demand curve, np.maximum(1.0, price)
bid_price(sector_price) == Maximum(PriceFloor, sector_price)

\* demand_module.bid(m, gas_zone, time_series, sector_price, sector) -> <<demand, wtp>>
\* against the calibration state bld (base loads) and bpd (base prices)
bid(bld, bpd, gas_zone, time_series, sector_price, sector) ==
    LET p == bid_price(sector_price)
        bl == bld[<<gas_zone, time_series, sector>>]
        bp == bpd[<<gas_zone, time_series, sector>>]
    IN <<(bl \div Micro) * elastic_load_table[<<sector, bp>>][p],
         (bl \div Micro) * wtp_table[<<sector, bp>>][p]>>

\* exception raised by bid, "none" when it returns: base_load_dict and base_price_dict are
\* globals that only calibrate creates, and looking one up before that raises NameError
bid_error(bld, bpd) ==
    IF DOMAIN bld = Coords /\ DOMAIN bpd = Coords THEN "none" ELSE "NameError"

\* ------------------------------------------------------------------------
\* Reading the solved model
\* ------------------------------------------------------------------------
\* the constraint object that existed before the latest rebuild
balance_component_previous(z, ts) == <<z, ts, built["Zone_Gas_Balance"].gen - 1>>

\* the constraint object m.Zone_Gas_Balance[z, ts] that exists now
balance_component(z, ts) == <<z, ts, built["Zone_Gas_Balance"].gen>>

\* gas_marginal_cost raises KeyError unless m.dual holds the current constraint object
has_marginal_cost(z, ts) == balance_component(z, ts) \in DOMAIN dual

gas_marginal_cost(z, ts) ==
    dual[balance_component(z, ts)]
        \div (bring_annual_costs_to_base_year[ts_period[ts]] * ts_scale_to_year[ts])

\* value(m.FlexibleDemand[z, ts, ds])
FlexibleDemand(z, ts, ds) ==
    SumOver(Range(built["FlexibleDemand"].bids),
            LAMBDA b : ValueOf(DRBidWeight[<<b, z, ts, ds>>]) * dr_bid[<<b, z, ts, ds>>])
        \div WeightScale

gas_demand(z, ts, ds) ==
    IF Len(DR_BID_LIST) = 0 THEN ref_quantity(z, ts, ds) ELSE FlexibleDemand(z, ts, ds)

\* sum over timepoints of m.DR_Welfare_Cost[tp] * m.bring_timepoint_costs_to_base_year[tp]:
\* the timepoints of a timeseries share its weights, and their weights add up to
\* ts_scale_to_year[ts] * ts_duration_hrs[ts]
welfare_cost ==
    SumOver(TsSet, LAMBDA ts :
        (0 - SumOver(Range(built["DR_Welfare_Cost"].bids) \X ZoneSet \X SectorSet, LAMBDA k :
                ValueOf(DRBidWeight[<<k[1], k[2], ts, k[3]>>])
                    * dr_bid_benefit[<<k[1], k[2], ts, k[3]>>]) \div WeightScale)
        * ts_scale_to_year[ts] * bring_annual_costs_to_base_year[ts_period[ts]])

\* ------------------------------------------------------------------------
\* get_prices, find_flat_prices, revenue_imbalance
\* ------------------------------------------------------------------------
PriceGrid == (0 - 1)..MaxPrice

\* a cost adder that is charged in every zone
cost_adder_every_zone(z, p) ==
    LET total_gas_demand_adder ==
            SumOver(Range(GAS_ZONE_COST_ADDER) \X Range(TS_IN_PERIOD[p]), LAMBDA k :
                gas_demand(k[1], k[2], "RC") * ts_scale_to_year[k[2]])
    IN IF total_gas_demand_adder # 0
       THEN RoundDiv(gl_cost_adder[p] * Micro, total_gas_demand_adder)
       ELSE 0

\* cost_adder[z, p] of get_prices
cost_adder(z, p) ==
    IF z \in Range(GAS_ZONE_COST_ADDER)
    THEN LET total_gas_demand_adder ==
                SumOver(Range(GAS_ZONE_COST_ADDER) \X Range(TS_IN_PERIOD[p]), LAMBDA k :
                    gas_demand(k[1], k[2], "RC") * ts_scale_to_year[k[2]])
         IN IF total_gas_demand_adder # 0
            THEN RoundDiv(gl_cost_adder[p] * Micro, total_gas_demand_adder)
            ELSE 0
    ELSE 0

\* recoverable_cost[z, ts, ds][0] of get_prices, with base_data_dict as it is at the call
recoverable_cost(bdd) ==
    LET adder == Dict([k \in ZoneSet \X PeriodSet |-> cost_adder(k[1], k[2])])
    IN IF iteration_number = 0
       THEN Dict([c \in Coords |-> bdd[c][2]])
       ELSE Dict([c \in Coords |->
                gas_marginal_cost(c[1], c[2])
                + (IF c[3] = "RC" THEN rc_markup[c[1]] ELSE 0)
                + (IF c[3] = "RC" THEN adder[<<c[1], ts_period[c[2]]>>] ELSE 0)])

\* a revenue_imbalance whose cost term uses the RC demand at each timeseries' own cost
revenue_imbalance_demand_at_cost(flat_price_rc, bld, bpd, gas_zone, period, rc) ==
    LET tss == Range(TS_IN_PERIOD[period])
        demand_rc(ts) == bid(bld, bpd, gas_zone, ts, flat_price_rc, "RC")[1]
        demand_rc_at_cost(ts) ==
            bid(bld, bpd, gas_zone, ts, rc[<<gas_zone, ts, "RC">>], "RC")[1]
    IN SumOver(tss, LAMBDA ts :
            rc[<<gas_zone, ts, "RC">>] * demand_rc_at_cost(ts) * ts_scale_to_year[ts])
       - SumOver(tss, LAMBDA ts : flat_price_rc * (demand_rc(ts) * ts_scale_to_year[ts]))

\* a revenue_imbalance whose flat-price revenue is not scaled to the year
revenue_imbalance_unscaled_revenue(flat_price_rc, bld, bpd, gas_zone, period, rc) ==
    LET tss == Range(TS_IN_PERIOD[period])
        demand_rc(ts) == bid(bld, bpd, gas_zone, ts, flat_price_rc, "RC")[1]
    IN SumOver(tss, LAMBDA ts :
            rc[<<gas_zone, ts, "RC">>] * demand_rc(ts) * ts_scale_to_year[ts])
       - SumOver(tss, LAMBDA ts : flat_price_rc * demand_rc(ts))

\* a revenue_imbalance whose collected revenue leaves out the EI sector
revenue_imbalance_without_ei_revenue(flat_price_rc, bld, bpd, gas_zone, period, rc) ==
    LET tss == Range(TS_IN_PERIOD[period])
        demand_rc(ts) == bid(bld, bpd, gas_zone, ts, flat_price_rc, "RC")[1]
        demand_ei(ts) == bid(bld, bpd, gas_zone, ts, rc[<<gas_zone, ts, "EI">>], "EI")[1]
    IN SumOver(tss, LAMBDA ts :
            rc[<<gas_zone, ts, "RC">>] * demand_rc(ts) * ts_scale_to_year[ts])
       + SumOver(tss, LAMBDA ts :
            rc[<<gas_zone, ts, "EI">>] * demand_ei(ts) * ts_scale_to_year[ts])
       - SumOver(tss, LAMBDA ts : flat_price_rc * (demand_rc(ts) * ts_scale_to_year[ts]))

\* revenue_imbalance(flat_price_rc, m, gas_zone, period, recoverable_cost)
revenue_imbalance(flat_price_rc, bld, bpd, gas_zone, period, rc) ==
    LET tss == Range(TS_IN_PERIOD[period])
        demand_rc(ts) == bid(bld, bpd, gas_zone, ts, flat_price_rc, "RC")[1]
        demand_ei(ts) == bid(bld, bpd, gas_zone, ts, rc[<<gas_zone, ts, "EI">>], "EI")[1]
        flat_price_revenue_rc ==
            SumOver(tss, LAMBDA ts : flat_price_rc * (demand_rc(ts) * ts_scale_to_year[ts]))
        marginal_price_revenue_ei ==
            SumOver(tss, LAMBDA ts :
                rc[<<gas_zone, ts, "EI">>] * demand_ei(ts) * ts_scale_to_year[ts])
        dynamic_revenue_rc ==
            SumOver(tss, LAMBDA ts :
                rc[<<gas_zone, ts, "RC">>] * demand_rc(ts) * ts_scale_to_year[ts])
        dynamic_revenue_ei ==
            SumOver(tss, LAMBDA ts :
                rc[<<gas_zone, ts, "EI">>] * demand_ei(ts) * ts_scale_to_year[ts])
        total_revenue == flat_price_revenue_rc + marginal_price_revenue_ei
        dynamic_total_revenue == dynamic_revenue_rc + dynamic_revenue_ei
    IN dynamic_total_revenue - total_revenue

\* denominator of rc_price_guess in find_flat_prices
rc_guess_weight(z, p) ==
    SumOver(Range(TS_IN_PERIOD[p]), LAMBDA ts : gas_demand(z, ts, "RC") * ts_scale_to_year[ts])

\* rc_price_guess of find_flat_prices (defined when rc_guess_weight is not 0)
rc_price_guess(z, p, rc) ==
    LET num == SumOver(Range(TS_IN_PERIOD[p]), LAMBDA ts :
                    rc[<<z, ts, "RC">>] * gas_demand(z, ts, "RC") * ts_scale_to_year[ts])
        den == rc_guess_weight(z, p)
    IN IF num >= 0 THEN RoundDiv(num, den) ELSE 0 - RoundDiv(0 - num, den)

\* scipy.optimize.newton(revenue_imbalance, rc_price_guess, args=...) when it converges:
\* the price of the grid at which the imbalance is closest to zero
newton(bld, bpd, z, p, rc) ==
    LET f == Dict([x \in PriceGrid |-> Abs(revenue_imbalance(x, bld, bpd, z, p, rc))])
    IN CHOOSE x \in PriceGrid :
          \A y \in PriceGrid : f[x] < f[y] \/ (f[x] = f[y] /\ x <= y)

\* a find_flat_prices that leaves RC at the recoverable cost of each timeseries
find_flat_prices_per_timeseries(bld, bpd, rc, revenue_neutral) ==
    Dict([k \in ZoneSet \X TsSet |-> [sector \in SectorSet |-> rc[<<k[1], k[2], sector>>]]])

\* find_flat_prices: final_prices[z, ts][sector]
find_flat_prices(bld, bpd, rc, revenue_neutral) ==
    LET flat_prices ==
            Dict([k \in ZoneSet \X PeriodSet |->
                IF revenue_neutral
                THEN newton(bld, bpd, k[1], k[2], rc)
                ELSE rc_price_guess(k[1], k[2], rc)])
    IN Dict([k \in ZoneSet \X TsSet |->
            [sector \in SectorSet |->
                IF sector = "RC"
                THEN flat_prices[<<k[1], ts_period[k[2]]>>]
                ELSE rc[<<k[1], k[2], "EI">>]]])

\* exception raised by get_prices, "none" when it returns
get_prices_error(newton_converges) ==
    IF iteration_number > 0 /\ \E z \in ZoneSet, ts \in TsSet : ~has_marginal_cost(z, ts)
    THEN "KeyError"
    ELSE IF ~dr_flat_pricing THEN "none"
    ELSE IF \E z \in ZoneSet, p \in PeriodSet : rc_guess_weight(z, p) = 0
    THEN "ZeroDivisionError"
    ELSE IF ~newton_converges THEN "RuntimeError"
    ELSE "none"

\* get_bids: prices[z, ts][sector] raises KeyError when get_prices returned the
\* recoverable_cost dictionary itself, whose keys are (z, ts, ds)
get_bids_error(newton_converges) ==
    IF get_prices_error(newton_converges) # "none" THEN get_prices_error(newton_converges)
    ELSE IF ~dr_flat_pricing THEN "KeyError"
    ELSE "none"

\* a get_bids whose loops stop one element short
get_bids_one_short(bdd, bld, bpd) ==
    LET prices == find_flat_prices(bld, bpd, recoverable_cost(bdd), TRUE)
    IN List([i \in 1..(Len(CoordSeq) - 1) |->
            LET z == CoordSeq[i][1]
                ts == CoordSeq[i][2]
                sector == CoordSeq[i][3]
                dw == bid(bld, bpd, z, ts, prices[<<z, ts>>][sector], sector)
            IN <<z, ts, sector, prices[<<z, ts>>][sector], dw[1], dw[2]>>])

\* get_bids: one tuple (z, ts, sector, price, demand[0], wtp) per coordinate, in loop order
get_bids(bdd, bld, bpd) ==
    LET prices == find_flat_prices(bld, bpd, recoverable_cost(bdd), TRUE)
    IN List([i \in 1..Len(CoordSeq) |->
            LET z == CoordSeq[i][1]
                ts == CoordSeq[i][2]
                sector == CoordSeq[i][3]
                dw == bid(bld, bpd, z, ts, prices[<<z, ts>>][sector], sector)
            IN <<z, ts, sector, prices[<<z, ts>>][sector], dw[1], dw[2]>>])

\* ------------------------------------------------------------------------
\* pre_iterate
\* ------------------------------------------------------------------------
\* an exception that is recorded but does not stop the loop
Fail_swallowed(kind) == pc' = "solve" /\ error' = kind

\* raise: the exception leaves pre_iterate / post_iterate and ends the run
Fail(kind) == pc' = "failed" /\ error' = kind

\* m.prev_recoverable_cost as assigned at the top of pre_iterate
new_prev_recoverable_cost ==
    IF iteration_number = 0
    THEN [c \in Coords |-> None]
    ELSE Dict([c \in Coords |->
            LET z == c[1]
                ts == c[2]
                ds == c[3]
                total_gas_demand_adder ==
                    SumOver(Range(GAS_ZONE_COST_ADDER), LAMBDA zz :
                        gas_demand(zz, ts, ds) * ts_scale_to_year[ts])
            IN Some(gas_marginal_cost(z, ts)
                    + (IF ds = "RC" THEN rc_markup[z] ELSE 0)
                    + (IF ds = "RC" /\ total_gas_demand_adder # 0
                       THEN RoundDiv(gl_cost_adder[ts_period[ts]] * Micro, total_gas_demand_adder)
                       ELSE 0))])

\* m.prev_demand as assigned at the top of pre_iterate
new_prev_demand ==
    IF iteration_number = 0
    THEN [c \in Coords |-> None]
    ELSE Dict([c \in Coords |-> Some(gas_demand(c[1], c[2], c[3]))])

\* sum of cost[z, ts, ds] * quantity[z, ts, ds] * ts_scale_to_year * bring_annual_costs_to_base_year
direct_cost(cost, quantity(_)) ==
    SumOver(Coords, LAMBDA c :
        ValueOf(cost[c]) * quantity(c) * ts_scale_to_year[c[2]]
            * bring_annual_costs_to_base_year[ts_period[c[2]]])

\* a best_bid_benefit that adds up the benefits of every bid up to b
bid_benefit_all_bids(ben, b) ==
    SumOver(TsSet, LAMBDA ts :
        (0 - SumOver((1..b) \X SectorSet \X ZoneSet, LAMBDA k : ben[<<k[1], k[3], ts, k[2]>>]))
            * ts_scale_to_year[ts] * bring_annual_costs_to_base_year[ts_period[ts]])

\* best_bid_benefit of pre_iterate for bid b with benefits ben
bid_benefit(ben, b) ==
    SumOver(TsSet, LAMBDA ts :
        (0 - SumOver(SectorSet \X ZoneSet, LAMBDA k : ben[<<b, k[2], ts, k[1]>>]))
            * ts_scale_to_year[ts] * bring_annual_costs_to_base_year[ts_period[ts]])

gap_test_loose(n, prev_cost, best_cost, prev_direct_cost) ==
    n > 0 /\ Abs(prev_cost - best_cost) <= Abs(prev_direct_cost) \div (GapDivisor \div 10)

\* the convergence test at the end of pre_iterate
gap_test(n, prev_cost, best_cost, prev_direct_cost) ==
    n > 0 /\ Abs(prev_cost - best_cost) <= Abs(prev_direct_cost) \div GapDivisor

\* a pre_iterate that never prints the lower-bound warning
lower_bound_warning_never(prev_cost, best_cost) == FALSE

\* the WARNING line of pre_iterate is printed
lower_bound_warning(prev_cost, best_cost) == prev_cost < best_cost

\* a gap that is taken as absolute when the previous direct cost is 0
gap_undefined_never(prev_direct_cost) == FALSE

\* (prev_cost - best_cost) / abs(prev_direct_cost) raises ZeroDivisionError
gap_undefined(prev_direct_cost) == prev_direct_cost = 0

\* the locals of pre_iterate before any cost is computed, no warning printed
NoGap == [prev_direct_cost |-> None, prev_cost |-> None, best_cost |-> None, warned |-> FALSE]

PreIterate ==
    /\ pc = "pre_iterate"
    /\ UNCHANGED <<optionVars, iteration_number, dual, n_solves, written>>
    /\ \E newton_converges \in (IF dr_flat_pricing THEN BOOLEAN ELSE {TRUE}) :
        IF iteration_number > 0 /\ \E z \in ZoneSet, ts \in TsSet : ~has_marginal_cost(z, ts)
        THEN /\ Fail("KeyError")
             /\ gap' = NoGap
             /\ UNCHANGED <<storeVars, componentVars, demandVars, prev_recoverable_cost,
                            prev_demand, converged, last_call, n_accepted>>
        ELSE
        LET \* update_demand: calibrate_model on the first run
            bdd == IF first_run THEN calibrate_base_data_dict ELSE base_data_dict
            bld == IF first_run THEN calibrate(calibrate_base_data, 4) ELSE base_load_dict
            bpd == IF first_run THEN calibrate(calibrate_base_data, 5) ELSE base_price_dict
        IN
        \E prc \in {new_prev_recoverable_cost}, pd \in {new_prev_demand} :
           /\ prev_recoverable_cost' = prc
           /\ prev_demand' = pd
           /\ base_data' = IF first_run THEN calibrate_base_data ELSE base_data
           /\ base_data_dict' = bdd
           /\ base_load_dict' = bld
           /\ base_price_dict' = bpd
           /\ n_calibrate' = IF first_run THEN n_calibrate + 1 ELSE n_calibrate
           \* update_demand: get_bids, add_bids
           /\ IF /\ dr_flat_pricing
                 /\ get_prices_error(newton_converges) \in {"none", "RuntimeError"}
                 /\ bid_error(bld, bpd) # "none"
              THEN /\ Fail(bid_error(bld, bpd))
                   /\ gap' = NoGap
                   /\ UNCHANGED <<storeVars, componentVars, converged, last_call, n_accepted>>
              ELSE IF get_bids_error(newton_converges) # "none"
              THEN /\ Fail(get_bids_error(newton_converges))
                   /\ gap' = NoGap
                   /\ UNCHANGED <<storeVars, componentVars, converged, last_call, n_accepted>>
              ELSE \E bids \in {get_bids(bdd, bld, bpd)} :
                      /\ add_bids(bids)
                      /\ IF non_convex_pairs(bids) # {}
                         THEN Fail("ValueError") /\ gap' = NoGap /\ UNCHANGED converged
                         ELSE IF iteration_number = 0
                         THEN /\ converged' = gap_test(iteration_number, 0, 0, 0)
                              /\ gap' = NoGap
                              /\ pc' = "solve"
                              /\ error' = error
                         ELSE LET prev_direct_cost == direct_cost(prc, LAMBDA c : ValueOf(pd[c]))
                                  prev_welfare_cost == welfare_cost
                                  prev_cost == prev_direct_cost + prev_welfare_cost
                                  b == DR_BID_LIST'[Len(DR_BID_LIST')]
                                  best_direct_cost ==
                                      direct_cost(prc, LAMBDA c : dr_bid'[<<b, c[1], c[2], c[3]>>])
                                  best_bid_benefit == bid_benefit(dr_bid_benefit', b)
                                  best_cost == best_direct_cost + best_bid_benefit
                              IN \E pdc \in {prev_direct_cost}, pcost \in {prev_cost},
                                    bcost \in {best_cost} :
                                 IF gap_undefined(pdc)
                                 THEN /\ Fail("ZeroDivisionError")
                                      /\ UNCHANGED converged
                                      /\ gap' = [prev_direct_cost |-> Some(pdc),
                                                 prev_cost |-> Some(pcost),
                                                 best_cost |-> Some(bcost),
                                                 warned |-> FALSE]
                                 ELSE /\ converged' = gap_test(iteration_number, pcost, bcost, pdc)
                                      /\ gap' = [prev_direct_cost |-> Some(pdc),
                                                 prev_cost |-> Some(pcost),
                                                 best_cost |-> Some(bcost),
                                                 warned |-> lower_bound_warning(pcost, bcost)]
                                      /\ pc' = "solve"
                                      /\ error' = error

\* ------------------------------------------------------------------------
\* The outer solve (external oracle)
\* ------------------------------------------------------------------------
\* marginal costs per timeseries that a solve may produce
MarginalCostProfiles ==
    {[ts \in TsSet |-> 2],
     [ts \in TsSet |-> IF ts = "t1" THEN 5 ELSE IF ts = "t2" THEN 7 ELSE 6],
     [ts \in TsSet |-> 0]}

Solve ==
    /\ pc = "solve"
    /\ \E mc \in MarginalCostProfiles \cup {EmptyDict},
          picks \in [1..WeightScale -> Range(DR_BID_LIST)] :
        /\ dual' = [k \in ZoneSet \X (DOMAIN mc) \X {built["Zone_Gas_Balance"].gen} |->
                        mc[k[2]] * bring_annual_costs_to_base_year[ts_period[k[2]]]
                            * ts_scale_to_year[k[2]]]
        /\ DRBidWeight' = [k \in DOMAIN DRBidWeight |->
                              Some(Cardinality({i \in 1..WeightScale : picks[i] = k[1]}))]
    /\ n_solves' = n_solves + 1
    /\ pc' = "post_iterate"
    /\ UNCHANGED <<optionVars, storeVars, built, demandVars, iteration_number, error,
                   prev_recoverable_cost, prev_demand, converged, gap, written,
                   last_call, n_accepted>>

\* ------------------------------------------------------------------------
\* post_iterate and the iteration driver
\* ------------------------------------------------------------------------
\* a post_iterate that tests for duals only after the results are written
PostIterate_check_after_write ==
    /\ pc = "post_iterate"
    /\ \E newton_converges \in BOOLEAN :
        IF get_bids_error(newton_converges) # "none" /\ DOMAIN dual # {}
        THEN Fail(get_bids_error(newton_converges)) /\ UNCHANGED written
        ELSE /\ written' = Append(written, iteration_number)
             /\ IF DOMAIN dual = {}
                THEN Fail("RuntimeError")
                ELSE pc' = "iterate" /\ error' = error
    /\ UNCHANGED <<optionVars, storeVars, componentVars, demandVars, iteration_number, dual,
                   prev_recoverable_cost, prev_demand, converged, gap, n_solves,
                   last_call, n_accepted>>

PostIterate ==
    /\ pc = "post_iterate"
    /\ \E newton_converges \in BOOLEAN :
        IF DOMAIN dual = {}
        THEN Fail("RuntimeError") /\ UNCHANGED written
        ELSE IF /\ dr_flat_pricing
                /\ get_prices_error(newton_converges) \in {"none", "RuntimeError"}
                /\ bid_error(base_load_dict, base_price_dict) # "none"
        THEN Fail(bid_error(base_load_dict, base_price_dict)) /\ UNCHANGED written
        ELSE IF get_bids_error(newton_converges) # "none"
        THEN Fail(get_bids_error(newton_converges)) /\ UNCHANGED written
        ELSE /\ written' = Append(written, iteration_number)
             /\ pc' = "iterate"
             /\ error' = error
    /\ UNCHANGED <<optionVars, storeVars, componentVars, demandVars, iteration_number, dual,
                   prev_recoverable_cost, prev_demand, converged, gap, n_solves,
                   last_call, n_accepted>>

\* a driver that tests the counter only after one more round
Iterate_one_more ==
    /\ pc = "iterate"
    /\ IF converged \/ iteration_number >= MaxIter
       THEN pc' = "done" /\ UNCHANGED iteration_number
       ELSE pc' = "pre_iterate" /\ iteration_number' = iteration_number + 1
    /\ UNCHANGED <<optionVars, storeVars, componentVars, demandVars, error, dual,
                   prev_recoverable_cost, prev_demand, converged, gap, n_solves, written,
                   last_call, n_accepted>>

Iterate ==
    /\ pc = "iterate"
    /\ IF converged \/ iteration_number + 1 >= MaxIter
       THEN pc' = "done" /\ UNCHANGED iteration_number
       ELSE pc' = "pre_iterate" /\ iteration_number' = iteration_number + 1
    /\ UNCHANGED <<optionVars, storeVars, componentVars, demandVars, error, dual,
                   prev_recoverable_cost, prev_demand, converged, gap, n_solves, written,
                   last_call, n_accepted>>

\* ------------------------------------------------------------------------
\* Specification of the iteration engine
\* ------------------------------------------------------------------------
Init ==
    /\ dr_flat_pricing \in BOOLEAN
    /\ rc_markup \in {[z \in ZoneSet |-> 0], [z \in ZoneSet |-> 1]}
    /\ gl_cost_adder \in {[p \in PeriodSet |-> 0],
                          [p \in PeriodSet |-> IF p = "p1" THEN 3 ELSE 0]}
    /\ iteration_number = 0
    /\ pc = "pre_iterate"
    /\ error = "none"
    /\ DR_BID_LIST = <<>>
    /\ dr_bid = EmptyDict
    /\ dr_price = EmptyDict
    /\ dr_bid_benefit = EmptyDict
    /\ DRBidWeight = EmptyDict
    /\ built = InitialBuilt(dr_flat_pricing)
    /\ dual = EmptyDict
    /\ base_data = None
    /\ base_data_dict = EmptyDict
    /\ base_load_dict = EmptyDict
    /\ base_price_dict = EmptyDict
    /\ n_calibrate = 0
    /\ prev_recoverable_cost = [c \in Coords |-> None]
    /\ prev_demand = [c \in Coords |-> None]
    /\ converged = FALSE
    /\ gap = NoGap
    /\ last_call = [bids |-> <<>>, list_before |-> <<>>, raised |-> FALSE]
    /\ n_accepted = 0
    /\ n_solves = 0
    /\ written = <<>>

Next == PreIterate \/ Solve \/ PostIterate \/ Iterate

Spec == Init /\ [][Next]_vars

\* the driver is a sequential loop: a step that can be taken is taken
SpecLive == Spec /\ WF_vars(Next)

\* ------------------------------------------------------------------------
\* Specification of the bid store: add_bids called directly with arbitrary bids
\* ------------------------------------------------------------------------
\* (price, demand, wtp) values a caller may submit for one (zone, timeseries, sector)
BidElements ==
    {<<10, 5 * Micro, 0>>,
     <<10, 5 * Micro, 0 - Micro>>,
     <<10, 5 * Micro, 0 - 1>>,
     <<10, 5 * Micro, 0 - 2>>,
     <<11, 4 * Micro, 0 - 10 * Micro>>}

\* a complete bid: element e1 at the coordinate c1, element e2 everywhere else
make_bids(c1, e1, e2) ==
    List([i \in 1..Len(CoordSeq) |->
        LET e == IF CoordSeq[i] = c1 THEN e1 ELSE e2
        IN <<CoordSeq[i][1], CoordSeq[i][2], CoordSeq[i][3], e[1], e[2], e[3]>>])

AddBidsCall ==
    /\ pc = "pre_iterate"
    /\ Len(DR_BID_LIST) < MaxCalls
    /\ \E e1 \in BidElements, e2 \in {<<10, 5 * Micro, 0>>, <<11, 4 * Micro, 0 - 10 * Micro>>} :
          add_bids(make_bids(<<"z1", "t2", "RC">>, e1, e2))
    /\ UNCHANGED <<optionVars, demandVars, loopVars>>

InitBids ==
    /\ Init
    /\ rc_markup = [z \in ZoneSet |-> 0]
    /\ gl_cost_adder = [p \in PeriodSet |-> 0]

NextBids == AddBidsCall

SpecBids == InitBids /\ [][NextBids]_vars

\* ------------------------------------------------------------------------
\* Specification of calibration: calibrate_model run on arbitrary reference prices
\* ------------------------------------------------------------------------
\* m.gas_ref_price is declared within NonNegativeReals: prices a data set may hold per
\* (sector, zone), zero included
RefPriceChoices == [SectorSet \X ZoneSet -> 0..3]

\* m.base_data as calibrate_model builds it from reference prices rp
base_data_for(rp) ==
    [i \in 1..Len(CoordSeq) |->
        LET c == CoordSeq[i]
        IN <<c[1], c[2], c[3], <<ref_quantity(c[1], c[2], c[3])>>, <<rp[<<c[3], c[1]>>]>>>>]

CalibrateCall ==
    /\ pc = "pre_iterate"
    /\ first_run
    /\ \E rp \in RefPriceChoices :
          /\ base_data' = base_data_for(rp)
          /\ base_data_dict' =
                [c \in Coords |-> <<ref_quantity(c[1], c[2], c[3]), rp[<<c[3], c[1]>>]>>]
          /\ base_load_dict' = calibrate(base_data_for(rp), 4)
          /\ base_price_dict' = calibrate(base_data_for(rp), 5)
    /\ n_calibrate' = n_calibrate + 1
    /\ UNCHANGED <<optionVars, storeVars, componentVars, loopVars, last_call, n_accepted>>

InitCalibrate == InitBids

NextCalibrate == CalibrateCall

SpecCalibrate == InitCalibrate /\ [][NextCalibrate]_vars

\* ------------------------------------------------------------------------
\* Properties of the bid store
\* ------------------------------------------------------------------------
Returned == pc \in {"solve", "post_iterate", "iterate", "done"}
LastBid == DR_BID_LIST[Len(DR_BID_LIST)]
Key(b, elem) == <<b, elem[1], elem[2], elem[3]>>

\* C1: the latest add_bids call raised the non-convexity error if and only if some
\* element (z, ts, sector, p_new, q_new, w_new) of its argument and some bid k that was
\* in DR_BID_LIST before the call satisfy
\* dr_bid_benefit[k] - dr_bid[k] * p_new > w_new - q_new * p_new + 0.000001;
\* in particular (10, 5, -1) is rejected once (10, 5, 0) is stored for the same coordinate.
C1_NonConvexRejectedIff ==
    /\ last_call.raised <=>
          \E i \in 1..Len(last_call.bids), k \in Range(last_call.list_before) :
              LET e == last_call.bids[i]
              IN dr_bid_benefit[Key(k, e)] - dr_bid[Key(k, e)] * e[4] > e[6] - e[5] * e[4] + Eps
    /\ \A i \in 1..Len(last_call.bids), k \in Range(last_call.list_before) :
          LET e == last_call.bids[i]
          IN (/\ <<e[4], e[5], e[6]>> = <<10, 5 * Micro, 0 - Micro>>
              /\ dr_price[Key(k, e)] = 10
              /\ dr_bid[Key(k, e)] = 5 * Micro
              /\ dr_bid_benefit[Key(k, e)] = 0) => last_call.raised

\* a call was rejected for the pair (10, 5, 0) / (10, 5, -1), and another call one unit
\* inside the tolerance was accepted
C1_Witness ==
    /\ last_call.raised
    /\ \E i \in 1..Len(last_call.bids), k \in Range(last_call.list_before) :
          LET e == last_call.bids[i]
          IN /\ <<e[4], e[5], e[6]>> = <<10, 5 * Micro, 0 - Micro>>
             /\ <<dr_price[Key(k, e)], dr_bid[Key(k, e)], dr_bid_benefit[Key(k, e)]>>
                    = <<10, 5 * Micro, 0>>
    /\ \E k \in Range(DR_BID_LIST) : dr_bid_benefit[<<k, "z1", "t2", "RC">>] = 0 - 1

\* C2: a step in which add_bids raises leaves DR_BID_LIST, dr_bid, dr_price and
\* dr_bid_benefit as they were and rebuilds no derived component.
C2_RejectionChangesNothing ==
    [][last_call'.raised =>
          /\ UNCHANGED <<DR_BID_LIST, dr_bid, dr_price, dr_bid_benefit>>
          /\ UNCHANGED DRBidWeight
          /\ \A c \in ComponentNames : built'[c] = built[c]]_vars

\* a rejected call made against a model that already holds two bids
C2_Witness ==
    /\ last_call.raised
    /\ Len(last_call.list_before) = 2
    /\ built["Zone_Gas_Balance"].gen = 2

\* C3: DR_BID_LIST is 1, 2, ..., n in this order, n being the number of add_bids calls
\* that returned.
C3_BidIdsAreOneToN ==
    /\ Len(DR_BID_LIST) = n_accepted
    /\ \A i \in 1..Len(DR_BID_LIST) : DR_BID_LIST[i] = i

\* two calls accepted, then one rejected
C3_Witness ==
    /\ n_accepted = 2
    /\ last_call.raised
    /\ DR_BID_LIST = <<1, 2>>

\* C4: every step keeps each recorded price, quantity and benefit, keeps every bid in
\* DR_BID_LIST, and writes only at indices of the one bid id it adds.
C4_AppendOnly ==
    [][/\ \A k \in DOMAIN dr_bid : k \in DOMAIN dr_bid' /\ dr_bid'[k] = dr_bid[k]
       /\ \A k \in DOMAIN dr_price : k \in DOMAIN dr_price' /\ dr_price'[k] = dr_price[k]
       /\ \A k \in DOMAIN dr_bid_benefit :
             k \in DOMAIN dr_bid_benefit' /\ dr_bid_benefit'[k] = dr_bid_benefit[k]
       /\ \A i \in 1..Len(DR_BID_LIST) :
             i <= Len(DR_BID_LIST') /\ DR_BID_LIST'[i] = DR_BID_LIST[i]
       /\ \A k \in (DOMAIN dr_bid' \ DOMAIN dr_bid) \cup (DOMAIN dr_price' \ DOMAIN dr_price)
                      \cup (DOMAIN dr_bid_benefit' \ DOMAIN dr_bid_benefit) :
             /\ k[1] \notin Range(DR_BID_LIST)
             /\ k[1] = DR_BID_LIST'[Len(DR_BID_LIST')]
             /\ Len(DR_BID_LIST') = Len(DR_BID_LIST) + 1]_vars

\* a third bid has been stored next to two earlier bids with other prices
C4_Witness ==
    /\ Len(DR_BID_LIST) = 3
    /\ \E c \in Coords :
          /\ dr_price[<<1, c[1], c[2], c[3]>>] # dr_price[<<2, c[1], c[2], c[3]>>]
          /\ dr_price[<<2, c[1], c[2], c[3]>>] # dr_price[<<3, c[1], c[2], c[3]>>]

\* C5: when pre_iterate has returned for iterations 0..n, DR_BID_LIST holds n+1 bids and
\* its last bid is the one generated in the latest call, also when that call returned
\* converged = True.
C5_OneBidPerPreIterate ==
    /\ Returned =>
          /\ Len(DR_BID_LIST) = iteration_number + 1
          /\ ~last_call.raised
          /\ Len(last_call.list_before) = iteration_number
          /\ \A i \in 1..Len(last_call.bids) :
                LET e == last_call.bids[i]
                IN /\ dr_price[Key(LastBid, e)] = e[4]
                   /\ dr_bid[Key(LastBid, e)] = e[5]
                   /\ dr_bid_benefit[Key(LastBid, e)] = e[6]
    /\ pc = "pre_iterate" => Len(DR_BID_LIST) = iteration_number

\* the call of iteration 2 returned converged = True and left three bids
C5_Witness ==
    /\ pc = "solve"
    /\ converged
    /\ iteration_number = 2
    /\ Len(DR_BID_LIST) = 3

\* C6: when an outer solve is about to be issued, every derived component that exists
\* was last constructed from the current DR_BID_LIST and refers to the current
\* DRBidWeight variables.
C6_ComponentsCurrentAtSolve ==
    pc = "solve" =>
        /\ \A c \in ComponentNames :
              built[c].defined =>
                  /\ built[c].bids = DR_BID_LIST
                  /\ built[c].vars = built["DRBidWeight"].gen
        /\ built["DR_Flat_Bid_Weight"].defined = dr_flat_pricing
        /\ DOMAIN DRBidWeight = BidKeys(DR_BID_LIST)

\* the second solve is about to be issued with two bids
C6_Witness ==
    /\ pc = "solve"
    /\ n_solves = 1
    /\ built["Zone_Gas_Balance"].bids = <<1, 2>>
    /\ built["SystemCost"].bids = <<1, 2>>

\* C7: for every (zone, timeseries, sector) the weight-sum constraint is skipped while
\* DR_BID_LIST is empty, and otherwise sets the sum of the weights of exactly the bids
\* of DR_BID_LIST equal to 1, the weights being non-negative variables.
C7_SimplexOverCurrentBids ==
    \A c \in Coords :
        IF Len(DR_BID_LIST) = 0
        THEN DR_Convex_Bid_Weight(c[1], c[2], c[3]).skip
        ELSE /\ ~DR_Convex_Bid_Weight(c[1], c[2], c[3]).skip
             /\ DR_Convex_Bid_Weight(c[1], c[2], c[3]).sum_of
                    = {<<b, c[1], c[2], c[3]>> : b \in Range(DR_BID_LIST)}
             /\ DR_Convex_Bid_Weight(c[1], c[2], c[3]).equals = 1
             /\ DR_Convex_Bid_Weight(c[1], c[2], c[3]).vars = built["DRBidWeight"].gen
             /\ DR_Convex_Bid_Weight(c[1], c[2], c[3]).sum_of \subseteq DOMAIN DRBidWeight
             /\ DRBidWeight_within = "NonNegativeReals"

\* one bid is stored and its weight alone is constrained to 1
C7_Witness ==
    /\ Len(DR_BID_LIST) = 1
    /\ DR_Convex_Bid_Weight("z2", "t3", "EI").sum_of = {<<1, "z2", "t3", "EI">>}

\* C8: with flat pricing, once a bid has been accepted, for every bid b of DR_BID_LIST,
\* zone and timeseries the flat constraint equates the RC weight of b with the RC weight
\* of b at the first timeseries of the period, and is skipped for EI; without flat
\* pricing the constraint does not exist.
C8_FlatWeightConstraint ==
    IF dr_flat_pricing
    THEN /\ DR_Flat_Bid_Weight_index = BidKeys(DR_BID_LIST)
         /\ \A b \in Range(DR_BID_LIST), z \in ZoneSet, ts \in TsSet :
               /\ DR_Flat_Bid_Weight(b, z, ts, "EI").skip
               /\ ~DR_Flat_Bid_Weight(b, z, ts, "RC").skip
               /\ DR_Flat_Bid_Weight(b, z, ts, "RC").lhs = <<b, z, ts, "RC">>
               /\ DR_Flat_Bid_Weight(b, z, ts, "RC").rhs
                      = <<b, z, (IF ts = "t3" THEN "t3" ELSE "t1"), "RC">>
               /\ DR_Flat_Bid_Weight(b, z, ts, "RC").vars = built["DRBidWeight"].gen
    ELSE /\ ~built["DR_Flat_Bid_Weight"].defined
         /\ DR_Flat_Bid_Weight_index = {}

\* flat pricing with two accepted bids
C8_Witness ==
    /\ dr_flat_pricing
    /\ n_accepted = 2
    /\ <<2, "z1", "t3", "RC">> \in DR_Flat_Bid_Weight_index

\* ------------------------------------------------------------------------
\* Properties of the iteration
\* ------------------------------------------------------------------------
\* C9: after add_bids has rebuilt the balance constraint at an iteration > 0 and before
\* the next solve, gas_marginal_cost(m, z, ts) can be read for every (zone, timeseries)
\* and returns the marginal cost it returned before the rebuild.
C9_DualsCarriedOver ==
    (pc = "solve" /\ iteration_number > 0) =>
        \A z \in ZoneSet, ts \in TsSet :
            /\ has_marginal_cost(z, ts)
            /\ gas_marginal_cost(z, ts) = ValueOf(prev_recoverable_cost[<<z, ts, "EI">>])

Terminated == pc \in {"done", "failed"}

\* C11: every run of the loop eventually stops; it never starts an iteration beyond the
\* configured maximum (at most MaxIter solves), and when it stops normally either the
\* gap test passed or MaxIter iterations have been performed
C11_LoopTerminates ==
    /\ <>Terminated
    /\ [](iteration_number < MaxIter /\ n_solves <= MaxIter)
    /\ [](pc = "done" => converged \/ n_solves = MaxIter)

\* the loop stopped at the ceiling although the gap test never passed
C11_Witness ==
    /\ pc = "done"
    /\ ~converged
    /\ n_solves = MaxIter
    /\ Len(written) = MaxIter

\* C12: a post_iterate that finds m.dual empty raises RuntimeError without writing the
\* iteration's results, and once the loop has failed no step follows: no pre_iterate,
\* no second solve
C12_MissingDualsFatal ==
    [][/\ pc # "failed"
       /\ (pc = "post_iterate" /\ DOMAIN dual = {}) =>
             /\ pc' = "failed"
             /\ error' = "RuntimeError"
             /\ written' = written
             /\ n_solves' = n_solves
             /\ iteration_number' = iteration_number]_vars

\* the second solve left no duals: the loop failed with the results of iteration 0 only
C12_Witness ==
    /\ pc = "failed"
    /\ error = "RuntimeError"
    /\ DOMAIN dual = {}
    /\ n_solves = 2
    /\ written = <<0>>

\* C13: a pre_iterate call at an iteration >= 1 whose costs show prev_cost < best_cost
\* prints the warning, does not raise, returns the verdict of the gap test, and does to
\* the model what every returning call does: one bid appended, components rebuilt from
\* the new list, calibration, options, duals and written results untouched
C13_LowerBoundViolationNonFatal ==
    [][(/\ pc = "pre_iterate"
        /\ ~IsNone(gap'.best_cost)
        /\ ValueOf(gap'.prev_cost) < ValueOf(gap'.best_cost)) =>
            /\ iteration_number >= 1
            /\ gap'.warned
            /\ pc' = "solve"
            /\ error' = error
            /\ converged' = gap_test(iteration_number, ValueOf(gap'.prev_cost),
                                     ValueOf(gap'.best_cost), ValueOf(gap'.prev_direct_cost))
            /\ DR_BID_LIST' = Append(DR_BID_LIST, next_bid_id)
            /\ \A c \in BidIndexed : built'[c].bids = DR_BID_LIST'
            /\ UNCHANGED <<optionVars, demandVars, dual, written, n_solves, iteration_number>>]_vars

\* a call returned after printing the warning, and the loop goes on to the next solve
C13_Witness ==
    /\ pc = "solve"
    /\ iteration_number >= 1
    /\ gap.warned
    /\ ValueOf(gap.prev_cost) < ValueOf(gap.best_cost)
    /\ ~converged

\* ------------------------------------------------------------------------
\* Properties of calibration and prices
\* ------------------------------------------------------------------------
\* C14: calibrate is called exactly once, by the first update_demand (iteration 0, base_data
\* still None); it is never called again, and from then on m.base_data, m.base_data_dict,
\* base_load_dict and base_price_dict keep the values that call gave them
C14_CalibratedOnce ==
    /\ [](n_calibrate = (IF IsNone(base_data) THEN 0 ELSE 1))
    /\ [](IsNone(base_data) => iteration_number = 0 /\ pc = "pre_iterate" /\ DR_BID_LIST = <<>>)
    /\ [][/\ (n_calibrate' # n_calibrate) =>
                (/\ pc = "pre_iterate" /\ iteration_number = 0 /\ IsNone(base_data)
                 /\ n_calibrate' = 1
                 /\ base_data' = calibrate_base_data
                 /\ base_data_dict' = calibrate_base_data_dict
                 /\ base_load_dict' = calibrate(calibrate_base_data, 4)
                 /\ base_price_dict' = calibrate(calibrate_base_data, 5))
          /\ (~IsNone(base_data)) => UNCHANGED demandVars]_vars

\* the third pre_iterate has returned and the calibration is still the one of iteration 0
C14_Witness ==
    /\ Returned
    /\ iteration_number = 2
    /\ n_calibrate = 1
    /\ base_data = calibrate_base_data
    /\ base_price_dict = [c \in Coords |-> gas_ref_price[c[3]]]

\* get_prices can be called and return its recoverable costs: by update_demand at the
\* start of pre_iterate, and by write_results once post_iterate has found duals
CanGetPrices ==
    /\ pc \in {"pre_iterate", "post_iterate"}
    /\ pc = "post_iterate" => DOMAIN dual # {}
    /\ iteration_number > 0 => \A z \in ZoneSet, ts \in TsSet : has_marginal_cost(z, ts)

\* C15: whenever get_prices can be called, the recoverable cost it computes is, at
\* iteration 0, the reference price of the sector; at an iteration >= 1, for EI the dual
\* of the balance constraint of (zone, timeseries) brought to a price, and for RC that
\* marginal cost plus rc_markup[zone] plus the cost adder of (zone, period), which is 0
\* outside GAS_ZONE_COST_ADDER and 0 when the RC demand of the cost-adder zones over the
\* period is 0
C15_RecoverableCost ==
    CanGetPrices =>
        LET bdd == IF first_run THEN calibrate_base_data_dict ELSE base_data_dict
            rc == recoverable_cost(bdd)
            mc(z, ts) == dual[<<z, ts, built["Zone_Gas_Balance"].gen>>]
                            \div (bring_annual_costs_to_base_year[ts_period[ts]]
                                    * ts_scale_to_year[ts])
            rc_demand(p) ==
                SumOver(Range(GAS_ZONE_COST_ADDER) \X {ts \in TsSet : ts_period[ts] = p},
                        LAMBDA k : gas_demand(k[1], k[2], "RC") * ts_scale_to_year[k[2]])
            adder(z, p) ==
                IF z \notin Range(GAS_ZONE_COST_ADDER) \/ rc_demand(p) = 0
                THEN 0
                ELSE RoundDiv(gl_cost_adder[p] * Micro, rc_demand(p))
        IN \A c \in Coords :
            rc[c] = IF iteration_number = 0 THEN gas_ref_price[c[3]]
                    ELSE IF c[3] = "EI" THEN mc(c[1], c[2])
                    ELSE mc(c[1], c[2]) + rc_markup[c[1]] + adder(c[1], ts_period[c[2]])

\* at an iteration >= 1, with a markup and a cost adder configured: RC in the cost-adder
\* zone z1 pays both on top of the marginal cost, RC in z2 the markup only, EI neither
C15_Witness ==
    /\ CanGetPrices
    /\ iteration_number >= 1
    /\ rc_markup["z1"] = 1
    /\ gl_cost_adder["p1"] > 0
    /\ LET rc == recoverable_cost(base_data_dict)
       IN /\ rc[<<"z1", "t2", "RC">>] > gas_marginal_cost("z1", "t2") + rc_markup["z1"]
          /\ rc[<<"z2", "t2", "RC">>] = gas_marginal_cost("z2", "t2") + rc_markup["z2"]
          /\ rc[<<"z1", "t2", "EI">>] = gas_marginal_cost("z1", "t2")
          /\ rc[<<"z1", "t3", "RC">>] = gas_marginal_cost("z1", "t3") + rc_markup["z1"]

\* C16: with flat pricing disabled every pre_iterate call returns, and the bid it adds
\* carries, for each (zone, timeseries, sector), the recoverable cost of that sector at
\* that (zone, timeseries) as its price
C16_NonFlatBidAtRecoverableCost ==
    [][(pc = "pre_iterate" /\ ~dr_flat_pricing) =>
          /\ pc' = "solve"
          /\ error' = "none"
          /\ Len(DR_BID_LIST') = Len(DR_BID_LIST) + 1
          /\ LET rc == recoverable_cost(calibrate_base_data_dict)
                 b == DR_BID_LIST'[Len(DR_BID_LIST')]
             IN \A c \in Coords : dr_price'[<<b, c[1], c[2], c[3]>>] = rc[c]]_vars

\* C17: every bid list that get_bids returned (and update_demand passed to add_bids) has
\* exactly one element for each (zone, timeseries, sector) of
\* GAS_ZONES x TIMESERIES x DEMAND_SECTORS: none missing, none repeated
C17_BidListExhaustive ==
    last_call.bids # <<>> =>
        /\ {<<last_call.bids[i][1], last_call.bids[i][2], last_call.bids[i][3]>> :
                i \in 1..Len(last_call.bids)} = Coords
        /\ Len(last_call.bids) = Cardinality(Coords)
        /\ \A i, j \in 1..Len(last_call.bids) :
              (last_call.bids[i][1] = last_call.bids[j][1]
                /\ last_call.bids[i][2] = last_call.bids[j][2]
                /\ last_call.bids[i][3] = last_call.bids[j][3]) => i = j

\* get_bids has returned a list at an iteration >= 1, from prices that differ by timeseries
C17_Witness ==
    /\ Returned
    /\ iteration_number >= 1
    /\ Len(last_call.bids) = Len(GAS_ZONES) * Len(TIMESERIES) * Len(DEMAND_SECTORS)
    /\ \E i, j \in 1..Len(last_call.bids) :
          /\ last_call.bids[i][3] = "EI" /\ last_call.bids[j][3] = "EI"
          /\ last_call.bids[i][4] # last_call.bids[j][4]

\* C18: under flat pricing, the bid that a returning pre_iterate adds has, for every zone,
\* one RC price for all timeseries of a period, and for every (zone, timeseries) an EI
\* price equal to the EI recoverable cost of that timeseries; the bids already stored
\* keep this shape
C18_FlatRCPricePerPeriod ==
    /\ [](dr_flat_pricing =>
            \A b \in Range(DR_BID_LIST), z \in ZoneSet, p \in PeriodSet :
                \A t1, t2 \in Range(TS_IN_PERIOD[p]) :
                    dr_price[<<b, z, t1, "RC">>] = dr_price[<<b, z, t2, "RC">>])
    /\ [][(dr_flat_pricing /\ pc = "pre_iterate" /\ pc' = "solve") =>
            LET rc == recoverable_cost(calibrate_base_data_dict)
                b == DR_BID_LIST'[Len(DR_BID_LIST')]
            IN \A z \in ZoneSet, ts \in TsSet :
                  dr_price'[<<b, z, ts, "EI">>] = rc[<<z, ts, "EI">>]]_vars

\* a bid made from costs that differ between the two timeseries of period p1: its EI
\* prices differ, its RC price is one
C18_Witness ==
    /\ dr_flat_pricing
    /\ Returned
    /\ iteration_number >= 1
    /\ ValueOf(prev_recoverable_cost[<<"z1", "t1", "RC">>])
            # ValueOf(prev_recoverable_cost[<<"z1", "t2", "RC">>])
    /\ dr_price[<<LastBid, "z1", "t1", "EI">>] # dr_price[<<LastBid, "z1", "t2", "EI">>]
    /\ dr_price[<<LastBid, "z1", "t1", "RC">>] = dr_price[<<LastBid, "z1", "t2", "RC">>]

\* ------------------------------------------------------------------------
\* Properties of the flat-price root finder
\* ------------------------------------------------------------------------
\* find_flat_prices can be called with the recoverable costs of the current state
CanFindFlatPrices == dr_flat_pricing /\ CanGetPrices

\* base loads and base prices the demand module holds when get_prices is called
BaseLoadsAtCall == IF first_run THEN calibrate(calibrate_base_data, 4) ELSE base_load_dict
BasePricesAtCall == IF first_run THEN calibrate(calibrate_base_data, 5) ELSE base_price_dict

\* C19 (as stated): for every (zone, period) and price P, revenue_imbalance is the sum over
\* the period's timeseries of recoverable_cost_RC(ts) * demand_RC(ts, recoverable_cost_RC(ts))
\* * scale(ts), minus P times the sum of demand_RC(ts, P) * scale(ts)
C19_ImbalanceDemandAtOwnCost ==
    CanFindFlatPrices =>
        LET rc == recoverable_cost(calibrate_base_data_dict)
            demand_rc(z, ts, price) ==
                bid(BaseLoadsAtCall, BasePricesAtCall, z, ts, price, "RC")[1]
        IN \A z \in ZoneSet, p \in PeriodSet, P \in PriceGrid :
              revenue_imbalance(P, BaseLoadsAtCall, BasePricesAtCall, z, p, rc)
                = SumOver(Range(TS_IN_PERIOD[p]), LAMBDA ts :
                      rc[<<z, ts, "RC">>] * demand_rc(z, ts, rc[<<z, ts, "RC">>])
                          * ts_scale_to_year[ts])
                  - P * SumOver(Range(TS_IN_PERIOD[p]), LAMBDA ts :
                      demand_rc(z, ts, P) * ts_scale_to_year[ts])

\* C19 (amended): for every (zone, period) and price P, revenue_imbalance is the sum over
\* the period's timeseries of (recoverable_cost_RC(ts) - P) * demand_RC(ts, P) * scale(ts):
\* both the cost term and the revenue term use the RC demand at the flat price P
C19_ImbalanceDemandAtFlatPrice ==
    CanFindFlatPrices =>
        LET rc == recoverable_cost(calibrate_base_data_dict)
            demand_rc(z, ts, price) ==
                bid(BaseLoadsAtCall, BasePricesAtCall, z, ts, price, "RC")[1]
        IN \A z \in ZoneSet, p \in PeriodSet, P \in PriceGrid :
              revenue_imbalance(P, BaseLoadsAtCall, BasePricesAtCall, z, p, rc)
                = SumOver(Range(TS_IN_PERIOD[p]), LAMBDA ts :
                      (rc[<<z, ts, "RC">>] - P) * demand_rc(z, ts, P) * ts_scale_to_year[ts])

\* recoverable costs that differ between the timeseries of period p1, and a price at which
\* the RC demand is not the demand at the timeseries' own cost
C19_Witness ==
    /\ CanFindFlatPrices
    /\ iteration_number >= 1
    /\ LET rc == recoverable_cost(base_data_dict)
       IN /\ rc[<<"z1", "t1", "RC">>] # rc[<<"z1", "t2", "RC">>]
          /\ \E P \in PriceGrid :
                /\ bid(base_load_dict, base_price_dict, "z1", "t2", P, "RC")[1]
                     # bid(base_load_dict, base_price_dict, "z1", "t2",
                           rc[<<"z1", "t2", "RC">>], "RC")[1]
                /\ revenue_imbalance(P, base_load_dict, base_price_dict, "z1", "p1", rc) # 0

\* C20: for every (zone, period) whose RC demand is positive in each timeseries, the flat
\* price that find_flat_prices returns with revenue_neutral = True
\*   - balances the revenue to the resolution of the price grid: the imbalance at it is
\*     zero, or it changes sign between it and the next price of the grid,
\*   - lies between the smallest and the largest RC recoverable cost of the period's
\*     timeseries,
\* and no price outside that range can balance the revenue: the imbalance is positive at
\* every lower price and negative at every higher one
C20_FlatPriceNeutralAndBracketed ==
    CanFindFlatPrices =>
        LET rc == recoverable_cost(calibrate_base_data_dict)
            bld == BaseLoadsAtCall
            bpd == BasePricesAtCall
            prices == find_flat_prices(bld, bpd, rc, TRUE)
        IN \A z \in ZoneSet, p \in PeriodSet :
            LET tss == Range(TS_IN_PERIOD[p])
                P == prices[<<z, TS_IN_PERIOD[p][1]>>]["RC"]
                f(x) == revenue_imbalance(x, bld, bpd, z, p, rc)
                lo == CHOOSE x \in {rc[<<z, ts, "RC">>] : ts \in tss} :
                        \A ts \in tss : x <= rc[<<z, ts, "RC">>]
                hi == CHOOSE x \in {rc[<<z, ts, "RC">>] : ts \in tss} :
                        \A ts \in tss : x >= rc[<<z, ts, "RC">>]
            IN (\A ts \in tss, x \in PriceGrid : bid(bld, bpd, z, ts, x, "RC")[1] > 0) =>
                /\ \/ f(P) = 0
                   \/ f(P) > 0 /\ P < MaxPrice /\ f(P + 1) < 0
                   \/ f(P) < 0 /\ P > 0 - 1 /\ f(P - 1) > 0
                /\ lo <= P /\ P <= hi
                /\ \A x \in PriceGrid : (x < lo => f(x) > 0) /\ (x > hi => f(x) < 0)

\* RC recoverable costs 5 and 7 in the two timeseries of period p1 of zone z2: the flat
\* price lies between them, and the revenue does not balance at 5 or at 7
C20_Witness ==
    /\ CanFindFlatPrices
    /\ iteration_number >= 1
    /\ LET rc == recoverable_cost(base_data_dict)
           P == find_flat_prices(base_load_dict, base_price_dict, rc, TRUE)[<<"z2", "t1">>]["RC"]
       IN /\ rc[<<"z2", "t1", "RC">>] = 5
          /\ rc[<<"z2", "t2", "RC">>] = 7
          /\ 5 < P /\ P < 7
          /\ revenue_imbalance(5, base_load_dict, base_price_dict, "z2", "p1", rc) > 0
          /\ revenue_imbalance(7, base_load_dict, base_price_dict, "z2", "p1", rc) < 0

\* C21: a step in which the root finder does not converge (RuntimeError out of
\* find_flat_prices, in pre_iterate or in the reporting pass of post_iterate) ends the run
\* and appends no bid: the bid store, the derived components and the record of add_bids
\* calls are as before, so no price, and in particular not the initial guess, is used
C21_NonConvergenceFatal ==
    [][(error = "none" /\ error' = "RuntimeError" /\ (pc = "pre_iterate" \/ DOMAIN dual # {})) =>
          /\ pc' = "failed"
          /\ UNCHANGED <<storeVars, componentVars, last_call, n_accepted, n_solves, written,
                         converged>>]_vars

\* the root finder failed in the pre_iterate of an iteration >= 1: the bids are those of
\* the earlier iterations, and no solve was issued for this one
C21_Witness ==
    /\ pc = "failed"
    /\ error = "RuntimeError"
    /\ DOMAIN dual # {}
    /\ iteration_number >= 1
    /\ n_solves = iteration_number
    /\ Len(DR_BID_LIST) = iteration_number
    /\ Len(written) = iteration_number

\* C22: once calibrate has run, the base price stored for every (zone, timeseries,
\* sector) is at least the price floor, hence strictly positive, whatever the reference
\* prices were
C22_BasePriceFloored ==
    ~IsNone(base_data) =>
        \A c \in Coords : c \in DOMAIN base_price_dict /\ base_price_dict[c] >= PriceFloor

\* ------------------------------------------------------------------------
\* Properties of the order of evaluation in pre_iterate
\* ------------------------------------------------------------------------
\* C23: in a pre_iterate call at iteration n >= 1 that returns, the previous demand, the
\* previous direct cost and the previous welfare cost are those of the state before the
\* call (the weights the latest solve gave to bids 1..n), the call then appends bid n+1 and
\* replaces the weight variables, and the best cost is made of the quantities and the
\* benefits of bid n+1 alone
C23_PrevBeforeBestAfter ==
    [][(pc = "pre_iterate" /\ iteration_number >= 1 /\ pc' = "solve") =>
        LET n == iteration_number
            weight(b, z, ts, ds) == ValueOf(DRBidWeight[<<b, z, ts, ds>>])
            demand(c) ==
                SumOver(1..n, LAMBDA b : weight(b, c[1], c[2], c[3]) * dr_bid[<<b, c[1], c[2], c[3]>>])
                    \div WeightScale
            cost(c) == ValueOf(prev_recoverable_cost'[c])
            welfare ==
                SumOver(TsSet, LAMBDA ts :
                    (0 - SumOver((1..n) \X ZoneSet \X SectorSet, LAMBDA k :
                            weight(k[1], k[2], ts, k[3]) * dr_bid_benefit[<<k[1], k[2], ts, k[3]>>])
                        \div WeightScale) * ts_scale_to_year[ts])
        IN /\ DR_BID_LIST = [b \in 1..n |-> b]
           /\ DR_BID_LIST' = [b \in 1..(n + 1) |-> b]
           /\ \A k \in DOMAIN DRBidWeight : ~IsNone(DRBidWeight[k])
           /\ \A k \in DOMAIN DRBidWeight' : IsNone(DRBidWeight'[k])
           /\ \A c \in Coords : prev_demand'[c] = Some(demand(c))
           /\ ValueOf(gap'.prev_direct_cost)
                = SumOver(Coords, LAMBDA c : cost(c) * demand(c) * ts_scale_to_year[c[2]])
           /\ ValueOf(gap'.prev_cost) = ValueOf(gap'.prev_direct_cost) + welfare
           /\ ValueOf(gap'.best_cost)
                = SumOver(Coords, LAMBDA c :
                      cost(c) * dr_bid'[<<n + 1, c[1], c[2], c[3]>>] * ts_scale_to_year[c[2]])
                  - SumOver(Coords, LAMBDA c :
                      dr_bid_benefit'[<<n + 1, c[1], c[2], c[3]>>] * ts_scale_to_year[c[2]])]_vars

\* the third pre_iterate has returned: its previous cost came from weights that the solve
\* had spread over both earlier bids, and bid 3 now exists with unset weights
C23_Witness ==
    /\ pc = "solve"
    /\ iteration_number = 2
    /\ Len(DR_BID_LIST) = 3
    /\ ~IsNone(gap.best_cost)
    /\ ValueOf(gap.prev_cost) # ValueOf(gap.best_cost)
    /\ \E c \in Coords :
          /\ ValueOf(prev_demand[c]) # dr_bid[<<1, c[1], c[2], c[3]>>]
          /\ ValueOf(prev_demand[c]) # dr_bid[<<2, c[1], c[2], c[3]>>]
    /\ \A k \in DOMAIN DRBidWeight : IsNone(DRBidWeight[k])

\* C24: only a solve writes duals; when pre_iterate starts at iteration n >= 1 the duals
\* it finds are those of the n-th solve (the solve of iteration n-1), held by the balance
\* constraint as that solve saw it, so the call does not fail on them; the EI prices of
\* bid n+1 and the recoverable costs are those duals brought to a price; and after the
\* rebuild, until the next solve, the duals cannot be read and nothing has read them
C24_PricesFromLatestSolve ==
    /\ [][dual' # dual => pc = "solve" /\ n_solves' = n_solves + 1]_vars
    /\ [][(pc = "pre_iterate" /\ iteration_number >= 1) =>
            /\ n_solves = iteration_number
            /\ DOMAIN dual = ZoneSet \X TsSet \X {built["Zone_Gas_Balance"].gen}
            /\ error' # "KeyError"
            /\ pc' = "solve" =>
                  \A z \in ZoneSet, ts \in TsSet :
                     LET mc == dual[<<z, ts, built["Zone_Gas_Balance"].gen>>]
                                  \div (bring_annual_costs_to_base_year[ts_period[ts]]
                                          * ts_scale_to_year[ts])
                         b == DR_BID_LIST'[Len(DR_BID_LIST')]
                     IN /\ dr_price'[<<b, z, ts, "EI">>] = mc
                        /\ ValueOf(prev_recoverable_cost'[<<z, ts, "EI">>]) = mc]_vars
    /\ [](pc = "solve" =>
            /\ error = "none"
            /\ \A k \in DOMAIN dual : k[3] # built["Zone_Gas_Balance"].gen)

\* the second solve gave other duals than the first; the third pre_iterate has priced bid
\* 3 from the duals of the second solve, not from those behind bid 2
C24_Witness ==
    /\ pc = "solve"
    /\ iteration_number = 2
    /\ n_solves = 2
    /\ dr_price[<<3, "z1", "t2", "EI">>] # dr_price[<<2, "z1", "t2", "EI">>]
    /\ dr_price[<<3, "z1", "t2", "EI">>]
         = dual[<<"z1", "t2", built["Zone_Gas_Balance"].gen - 1>>] \div ts_scale_to_year["t2"]

\* ------------------------------------------------------------------------
\* Properties of the costs behind the lower bound
\* ------------------------------------------------------------------------
\* C25: in a pre_iterate call at iteration n >= 1 that reaches update_demand, the
\* m.prev_recoverable_cost[z, ts, ds] that weights best_direct_cost is the recoverable
\* cost from which get_prices derives the price of the bid of that call, RC markup and
\* RC cost adder included
C25_SameRecoverableCost ==
    [][(pc = "pre_iterate" /\ iteration_number >= 1 /\ CanGetPrices) =>
          \A c \in Coords :
             prev_recoverable_cost'[c] = Some(recoverable_cost(base_data_dict)[c])]_vars

C27_StoredBidsPairwiseConvex ==
    \A k \in Range(DR_BID_LIST), j \in Range(DR_BID_LIST), c \in Coords :
       k < j =>
          dr_bid_benefit[<<k, c[1], c[2], c[3]>>]
                - dr_bid[<<k, c[1], c[2], c[3]>>] * dr_price[<<j, c[1], c[2], c[3]>>]
             <= dr_bid_benefit[<<j, c[1], c[2], c[3]>>]
                - dr_bid[<<j, c[1], c[2], c[3]>>] * dr_price[<<j, c[1], c[2], c[3]>>] + Eps

\* three bids are stored, the second within the tolerance of the first and the third,
\* just accepted, at another price
C27_Witness ==
    /\ Len(DR_BID_LIST) = 3
    /\ dr_bid_benefit[<<2, "z1", "t2", "RC">>] = dr_bid_benefit[<<1, "z1", "t2", "RC">>] - Eps
    /\ dr_price[<<2, "z1", "t2", "RC">>] = dr_price[<<1, "z1", "t2", "RC">>]
    /\ dr_price[<<3, "z1", "t2", "RC">>] # dr_price[<<1, "z1", "t2", "RC">>]
    /\ ~last_call.raised

\* ------------------------------------------------------------------------
\* Independence of the revenue imbalance from the EI sector
\* ------------------------------------------------------------------------
\* EI recoverable costs per timeseries that another evaluation may be given: below the
\* price floor, and different in every timeseries
OtherCostsEI ==
    {[ts \in TsSet |-> 0 - 1],
     [ts \in TsSet |-> IF ts = "t1" THEN 1 ELSE IF ts = "t2" THEN 9 ELSE 4]}

\* recoverable costs rc with the EI entries replaced by ei, the RC entries kept
WithCostsEI(rc, ei) ==
    [c \in Coords |-> IF c[3] = "EI" THEN ei[c[2]] ELSE rc[c]]

\* base observations obs (loads or prices) with every EI entry replaced by v
WithBaseEI(obs, v) ==
    [c \in Coords |-> IF c[3] = "EI" THEN v ELSE obs[c]]

\* C28: whenever find_flat_prices can be called, the revenue imbalance of every
\* (zone, period) at every flat RC price is the same when it is evaluated with other EI
\* recoverable costs, other EI base loads or other EI base prices, everything else equal
C28_ImbalanceIndependentOfEI ==
    CanFindFlatPrices =>
        LET rc == recoverable_cost(calibrate_base_data_dict)
            imbalance == Dict([k \in ZoneSet \X PeriodSet \X PriceGrid |->
                            revenue_imbalance(k[3], BaseLoadsAtCall, BasePricesAtCall,
                                              k[1], k[2], rc)])
        IN \A z \in ZoneSet, p \in PeriodSet, P \in PriceGrid :
              /\ \A ei \in OtherCostsEI :
                    revenue_imbalance(P, BaseLoadsAtCall, BasePricesAtCall, z, p,
                                      WithCostsEI(rc, ei)) = imbalance[<<z, p, P>>]
              /\ revenue_imbalance(P, WithBaseEI(BaseLoadsAtCall, 3 * Micro),
                                   WithBaseEI(BasePricesAtCall, 3), z, p, rc)
                    = imbalance[<<z, p, P>>]

\* the EI sector brings revenue in period p1 of zone z1, the other EI inputs bring a
\* different one, and the imbalance at some price is not zero
C28_Witness ==
    /\ CanFindFlatPrices
    /\ iteration_number >= 1
    /\ LET rc == recoverable_cost(base_data_dict)
           revenue_ei(bld, bpd, costs) ==
               SumOver(Range(TS_IN_PERIOD["p1"]), LAMBDA ts :
                   costs[<<"z1", ts, "EI">>]
                      * bid(bld, bpd, "z1", ts, costs[<<"z1", ts, "EI">>], "EI")[1]
                      * ts_scale_to_year[ts])
       IN /\ revenue_ei(base_load_dict, base_price_dict, rc) > 0
          /\ \A ei \in OtherCostsEI :
                revenue_ei(WithBaseEI(base_load_dict, 3 * Micro),
                           WithBaseEI(base_price_dict, 3), WithCostsEI(rc, ei))
                   # revenue_ei(base_load_dict, base_price_dict, rc)
          /\ \E P \in PriceGrid :
                revenue_imbalance(P, base_load_dict, base_price_dict, "z1", "p1", rc) # 0

\* ------------------------------------------------------------------------
\* Properties of the price a bid records
\* ------------------------------------------------------------------------
\* C29: for every stored bid and every (zone, timeseries, sector), dr_bid and
\* dr_bid_benefit are the demand and the willingness to pay that the demand module
\* returns for the recorded price dr_price, and the price at which the module evaluated
\* the demand curve is that recorded price, whatever the price, below 1.0 and negative
\* ones included
C29_BidAtRecordedPrice ==
    \A b \in Range(DR_BID_LIST), c \in Coords :
       LET k == <<b, c[1], c[2], c[3]>>
           dw == bid(base_load_dict, base_price_dict, c[1], c[2], dr_price[k], c[3])
       IN /\ dr_bid[k] = dw[1]
          /\ dr_bid_benefit[k] = dw[2]
          /\ bid_price(dr_price[k]) = dr_price[k]

\* ------------------------------------------------------------------------
\* Properties of the order of calibrate and bid
\* ------------------------------------------------------------------------
\* the call of pre_iterate or post_iterate that starts in this state calls bid: get_prices
\* reaches the root finder, whose function revenue_imbalance calls it
CallsBid ==
    /\ CanFindFlatPrices
    /\ \A z \in ZoneSet, p \in PeriodSet : rc_guess_weight(z, p) # 0

\* C30: bid never fails for want of a calibration, and every pre_iterate or post_iterate
\* call that calls bid (from the root finder at iteration 0 and later, from get_bids, from
\* the report of post_iterate) ends with calibrate having run and its base loads and base
\* prices in place for every (zone, timeseries, sector)
C30_CalibrateBeforeBid ==
    /\ [](error # "NameError")
    /\ [][CallsBid =>
            /\ n_calibrate' >= 1
            /\ DOMAIN base_load_dict' = Coords
            /\ DOMAIN base_price_dict' = Coords
            /\ pc = "post_iterate" => n_calibrate >= 1]_vars

\* iteration 0 has run the root finder and get_bids in pre_iterate and the report in
\* post_iterate, after the one calibration
C30_Witness ==
    /\ pc = "iterate"
    /\ iteration_number = 0
    /\ dr_flat_pricing
    /\ n_calibrate = 1
    /\ Len(DR_BID_LIST) = 1
    /\ written = <<0>>
    /\ error = "none"

====
